---- MODULE Spec2Model ----
(***************************************************************************)
(* break-check: a distributed rate limiter.  The sliding-window estimator  *)
(* (common/algo.rs), the Redis counter protocol and the acquire handler    *)
(* (db/redis/store.rs, server.rs) as a state machine.                      *)
(*                                                                         *)
(* Time is the Unix time in milliseconds (to_unix_millis truncates a       *)
(* SystemTime to that unit).  u32 values are modelled with U32_BITS bits,  *)
(* so that saturation is within reach of a finite check.                   *)
(***************************************************************************)
EXTENDS Integers, Sequences, FiniteSets, Bags, TLC

(***************************************************************************)
(* Widths.                                                                 *)
(***************************************************************************)
\* width of the model's u32 (the code's is 32)
U32_BITS == 6
U32_MAX == 2 ^ U32_BITS - 1
\* significand bits of an IEEE-754 double
F64_MANT_BITS == 53

Min(a, b) == IF a < b THEN a ELSE b

\* u32::wrapping_add, the sum a release build computes for a plain +
wrapping_add(a, b) == (a + b) % (U32_MAX + 1)
\* u32::saturating_add
saturating_add(a, b) == IF a + b > U32_MAX THEN U32_MAX ELSE a + b
\* u32::saturating_sub
saturating_sub(a, b) == IF a < b THEN 0 ELSE a - b

(***************************************************************************)
(* IEEE-754 double arithmetic, as far as try_acquire uses it: the quotient *)
(* of two positive integers n <= d, the product of an integer and such a   *)
(* quotient, f64::round and the cast to u32.  A double is a record         *)
(* [m, e]: m its 53 significand bits, most significant first (m[1] = 1),   *)
(* e the exponent of m[1]; its value is sum(m[i] * 2^(e + 1 - i)).         *)
(***************************************************************************)
RECURSIVE BitsInc(_, _)
\* the bit string b plus one at position i (a carry out of position 1
\* lengthens the string)
BitsInc(b, i) ==
  IF i = 0 THEN <<1>> \o b
  ELSE IF b[i] = 0 THEN [b EXCEPT ![i] = 1]
  ELSE BitsInc([b EXCEPT ![i] = 0], i - 1)

\* some bit of b after position i is set
AnySet(b, i) == \E j \in (i + 1)..Len(b) : b[j] = 1

\* the bit string b (leading bit 1, exponent e) rounded to the nearest
\* double, ties to the even significand; sticky says that the exact value
\* has nonzero bits beyond those of b
RoundToF64(b, e, sticky) ==
  LET n == F64_MANT_BITS IN
  IF Len(b) <= n
  THEN [m |-> b \o [i \in 1..(n - Len(b)) |-> 0], e |-> e]
  ELSE LET kept  == SubSeq(b, 1, n)
           guard == b[n + 1]
           rest  == sticky \/ AnySet(b, n + 1)
           up    == guard = 1 /\ (rest \/ kept[n] = 1)
           inc   == IF up THEN BitsInc(kept, n) ELSE kept
       IN IF Len(inc) > n THEN [m |-> SubSeq(inc, 1, n), e |-> e + 1]
          ELSE [m |-> inc, e |-> e]

RECURSIVE Normalize(_, _, _)
\* <<n * 2^k, -k>> for the least k with d <= n * 2^k
Normalize(n, d, e) == IF n >= d THEN <<n, e>> ELSE Normalize(2 * n, d, e - 1)

RECURSIVE DivBits(_, _, _, _)
\* the quotient bits of r / d (r < d) after those of acc, by long division,
\* until acc holds k bits: <<bits, remainder>>
DivBits(r, d, k, acc) ==
  IF Len(acc) = k THEN <<acc, r>>
  ELSE IF 2 * r >= d THEN DivBits(2 * r - d, d, k, Append(acc, 1))
  ELSE DivBits(2 * r, d, k, Append(acc, 0))

\* n as f64 / d as f64, for integers 0 < n <= d (both exact as doubles)
f64_div(n, d) ==
  LET norm == Normalize(n, d, 0)
      q    == DivBits(norm[1] - d, d, F64_MANT_BITS + 1, <<1>>)
  IN RoundToF64(q[1], norm[2], q[2] # 0)

RECURSIVE MulBits(_, _, _, _)
\* the bit string b times the integer p >= 1, from the last bit to the
\* first: acc holds the product's bits so far, c is the carry
MulBits(b, p, c, acc) ==
  LET i == Len(b) - Len(acc)
  IN IF i <= 0
     THEN IF c = 0 THEN acc ELSE MulBits(b, p, c \div 2, <<c % 2>> \o acc)
     ELSE MulBits(b, p, (p * b[i] + c) \div 2, <<(p * b[i] + c) % 2>> \o acc)

\* (p as f64) * w for an integer p >= 1 (exact as a double) and a double w
f64_mul(p, w) ==
  LET x == MulBits(w.m, p, 0, <<>>)
  IN RoundToF64(x, w.e + (Len(x) - F64_MANT_BITS), FALSE)

RECURSIVE BitsToNat(_, _, _)
\* the number whose binary digits are b[1..k]
BitsToNat(b, k, i) ==
  IF i > k THEN 0 ELSE b[i] * 2 ^ (k - i) + BitsToNat(b, k, i + 1)

\* the cast of a double to u32 without f64::round: the fraction is dropped
f64_trunc_as_u32(x) ==
  IF x.e < 0 THEN 0
  ELSE IF x.e >= U32_BITS THEN U32_MAX
  ELSE Min(BitsToNat(x.m, x.e + 1, 1), U32_MAX)
\* x.round() as u32 for a double x > 0: to the nearest integer, halves away
\* from zero; the cast saturates at u32::MAX
f64_round_as_u32(x) ==
  IF x.e < -1 THEN 0
  ELSE IF x.e = -1 THEN 1
  ELSE IF x.e >= U32_BITS THEN U32_MAX
  ELSE Min(BitsToNat(x.m, x.e + 1, 1) + x.m[x.e + 2], U32_MAX)

\* (prev as f64 * (rem as f64 / window_ms as f64)).round() as u32, evaluated
\* in double arithmetic
f64_weighted(prev, rem, window_ms) ==
  IF prev = 0 THEN 0
  ELSE f64_round_as_u32(f64_mul(prev, f64_div(rem, window_ms)))

(***************************************************************************)
(* The policy of the service and the instants the clock takes.             *)
(***************************************************************************)
\* PolicyDefinition { max_tokens, window_secs } of the default policy
MAX_TOKENS == 10
WINDOW_SECS == 60
default_policy == [max_tokens |-> MAX_TOKENS, window_secs |-> WINDOW_SECS]

\* Duration::from_secs(secs).as_millis()
as_millis(secs) == secs * 1000

\* Duration::subsec_millis for as_millis: the milliseconds of the second
subsec_millis(time) == time % 1000

\* to_unix_millis: a SystemTime is modelled by its Unix time in milliseconds
to_unix_millis(time) == time

\* the clock runs through the windows 1..MaxWindow
MaxWindow == 2
\* the offsets into a window at which the clock is read: its first
\* millisecond, 42% and 50% of it, and its last millisecond
Offsets(window_ms) ==
  {0, (42 * window_ms) \div 100, window_ms \div 2, window_ms - 1}
Instants(window_ms) ==
  {w * window_ms + o : w \in 1..MaxWindow, o \in Offsets(window_ms)}

\* the window lengths of the estimator's inputs, in seconds
EstWindowSecs == {1, WINDOW_SECS}

\* the pairs <<remaining_window_time, window_ms>> the model reaches
RemWindows ==
  {rw \in UNION {{<<as_millis(s) - o, as_millis(s)>> : o \in Offsets(as_millis(s))} :
                   s \in EstWindowSecs} : TRUE}

\* f64_weighted on the arguments the model reaches, evaluated once
F64Memo ==
  [prev \in 0..U32_MAX |->
     [rw \in RemWindows |-> f64_weighted(prev, rw[1], rw[2])]]

(***************************************************************************)
(* SlidingWindow::try_acquire                                              *)
(***************************************************************************)
\* a weight of the previous window that grows as the window advances: what
\* the weight of the code leaves of prev
weighted_previous_growing(prev, remaining_window_time, window_ms) ==
  prev - (IF prev <= U32_MAX /\ <<remaining_window_time, window_ms>> \in RemWindows
          THEN F64Memo[prev][<<remaining_window_time, window_ms>>]
          ELSE f64_weighted(prev, remaining_window_time, window_ms))

\* (previous_window_requests as f64 * previous_window_weight).round() as u32
\* with previous_window_weight = remaining_window_time as f64 / window_ms as f64
weighted_previous(prev, remaining_window_time, window_ms) ==
  IF prev <= U32_MAX /\ <<remaining_window_time, window_ms>> \in RemWindows
  THEN F64Memo[prev][<<remaining_window_time, window_ms>>]
  ELSE f64_weighted(prev, remaining_window_time, window_ms)

Ok(remaining, reset_after) ==
  [ok |-> TRUE, remaining |-> remaining, reset_after |-> reset_after]
RateLimitExceeded(reset_after) ==
  [ok |-> FALSE, remaining |-> 0, reset_after |-> reset_after]

\* AcquireAttempt::new
AcquireAttempt(tokens, max_tokens, window_duration, previous, current) ==
  [tokens_to_acquire |-> tokens,
   max_tokens_per_window |-> max_tokens,
   window_duration |-> window_duration,
   previous_window_requests |-> previous,
   current_window_requests |-> current]

\* the estimator, step by step; clock_now is what self.clock.now() returns
\* the time already spent in the window that holds unix_now
time_in_current_window(unix_now, window_ms) == unix_now % window_ms

\* the time spent in the window, taken for the time left in it
elapsed_window_time(unix_now, window_ms) ==
  time_in_current_window(unix_now, window_ms)
\* the time left in the window that holds unix_now
remaining_window_time(unix_now, window_ms) ==
  window_ms - time_in_current_window(unix_now, window_ms)

\* the hard cap on the counter of the current window
hard_cap(attempt) ==
  saturating_add(attempt.current_window_requests, attempt.tokens_to_acquire)
    > attempt.max_tokens_per_window

\* an estimate that leaves the counter of the current window out
used_previous_only(attempt, remaining, window_ms) ==
  weighted_previous(attempt.previous_window_requests, remaining, window_ms)

\* the estimate of the usage in the sliding window
used(attempt, remaining, window_ms) ==
  saturating_add(attempt.current_window_requests,
                 weighted_previous(attempt.previous_window_requests,
                                   remaining, window_ms))

\* the estimate, the request left out
possible_used_without_tokens(estimate, tokens) == estimate
\* the estimate and the request, added as a release build adds with +
possible_used_wrapping(estimate, tokens) == wrapping_add(estimate, tokens)

\* the estimate once the request is counted in
possible_used(estimate, tokens) == saturating_add(estimate, tokens)

try_acquire(attempt, clock_now) ==
  LET window_ms == as_millis(attempt.window_duration)
      unix_now == to_unix_millis(clock_now)
      remaining == remaining_window_time(unix_now, window_ms)
      reset_after == clock_now + remaining
  IN IF hard_cap(attempt)
     THEN RateLimitExceeded(reset_after)
     ELSE LET estimate == used(attempt, remaining, window_ms)
              possible == possible_used(estimate, attempt.tokens_to_acquire)
          IN IF possible > attempt.max_tokens_per_window
             THEN RateLimitExceeded(reset_after)
             ELSE Ok(saturating_sub(attempt.max_tokens_per_window, possible),
                     reset_after)

(***************************************************************************)
(* The policy resolver of RedisRateLimit::acquire.                         *)
(***************************************************************************)
\* the policy rules of the service (none: every key gets the default policy)
policies == <<>>

\* str::starts_with
starts_with(key, pattern) ==
  Len(pattern) <= Len(key) /\ SubSeq(key, 1, Len(pattern)) = pattern

\* a filter that takes every pattern for an exact one
Matches_exact_only(rule, key) == rule.pattern = key

\* the filter of the rule scan: the rule matches the key
Matches(rule, key) ==
  IF rule.pattern_type = "Exact" THEN rule.pattern = key
  ELSE starts_with(key, rule.pattern)

\* Iterator::next after the filter: the first matching rule, whatever its
\* priority
FirstMatching(rules, key) ==
  LET matching == {i \in 1..Len(rules) : Matches(rules[i], key)}
  IN IF matching = {} THEN 0
     ELSE CHOOSE i \in matching : \A j \in matching : i <= j

\* Iterator::max_by_key over the matching rules: the index of the last rule
\* among those of the largest priority, 0 when no rule matches
MaxByKey(rules, key) ==
  LET matching == {i \in 1..Len(rules) : Matches(rules[i], key)}
  IN IF matching = {} THEN 0
     ELSE CHOOSE i \in matching :
            \A j \in matching :
              \/ rules[j].priority < rules[i].priority
              \/ (rules[j].priority = rules[i].priority /\ j <= i)

\* .map(|rule| &rule.policy).unwrap_or(&self.default_policy)
ResolvePolicy(rules, default, key) ==
  LET i == MaxByKey(rules, key)
  IN IF i = 0 THEN default ELSE rules[i].policy

(***************************************************************************)
(* The Redis backend: counters with an expiry time.                        *)
(***************************************************************************)
\* a counter key without the resource key: one counter per window for all
format_key_shared(key, window) == "rate_limit.window." \o ToString(window)
\* format_key!(key, window)
format_key(key, window) == key \o ".rate_limit.window." \o ToString(window)

\* per-call deadline of a backend operation, in milliseconds
TIMEOUT_MS == 200

\* GET key, as Option<u32>.unwrap_or(0)
GET(st, key) == IF key \in DOMAIN st THEN st[key].value ELSE 0

\* a script that writes the increment over the counter (SET for INCRBY)
SCRIPT_set(st, t, key, increment, ttl) ==
  [store |-> (key :> [value |-> increment, expire_at |-> t + ttl * 1000]) @@ st,
   ret |-> GET(st, key)]

\* a script that reads the counter and leaves it as it is
SCRIPT_read_only(st, t, key, increment, ttl) ==
  [store |-> st, ret |-> GET(st, key)]

\* a script that returns the counter after the increment
SCRIPT_returns_new(st, t, key, increment, ttl) ==
  LET new_value == GET(st, key) + increment
  IN [store |-> (key :> [value |-> new_value, expire_at |-> t + ttl * 1000]) @@ st,
      ret |-> new_value]

\* a script whose reply is read as 0
SCRIPT_returns_zero(st, t, key, increment, ttl) ==
  LET new_value == GET(st, key) + increment
  IN [store |-> (key :> [value |-> new_value, expire_at |-> t + ttl * 1000]) @@ st,
      ret |-> 0]

\* SCRIPT at Redis time t: INCRBY key increment; EXPIRE key ttl;
\* return new_value - increment
SCRIPT(st, t, key, increment, ttl) ==
  LET new_value == GET(st, key) + increment
  IN [store |-> (key :> [value |-> new_value, expire_at |-> t + ttl * 1000]) @@ st,
      ret |-> new_value - increment]

\* Redis drops a key once its expiry time has passed
Expire(st, t) == [k \in {k \in DOMAIN st : st[k].expire_at >= t} |-> st[k]]

(***************************************************************************)
(* State.                                                                  *)
(***************************************************************************)
VARIABLES
  est,      \* the estimator on its own: [pc, attempt, now, result, response]
  resolver, \* the policy resolver on its own: [pc, rules, key, policy]
  now,      \* the wall clock, Unix milliseconds
  store,    \* Redis: counter key -> [value, expire_at]
  calls,    \* the acquire calls in flight, a bag
  last,     \* the latest answer, with the call it answers
  issued,   \* the number of Acquire requests received
  hist,     \* history, by resource key: what was requested and answered
  lockers   \* the callers of acquire_rate_limit_lock, by caller

vars == <<est, resolver, now, store, calls, last, issued, hist, lockers>>

NoResult == [ok |-> FALSE, remaining |-> 0, reset_after |-> 0]
NoResponse == [allowed |-> FALSE, remaining |-> 0, reset_after |-> 0]
EstIdle == [pc |-> "idle", attempt |-> AcquireAttempt(0, 0, 0, 0, 0),
            now |-> 0, result |-> NoResult, response |-> NoResponse]
ResolverIdle == [pc |-> "idle", rules |-> << >>, key |-> "", policy |-> default_policy]
NoReply == [status |-> "None"]

\* the history of a key: the tokens requested on it, the calls admitted,
\* the tokens admitted by window, the windows in which its calls
\* began or were decided, whether two of its calls were in flight together,
\* and by window the runs of SCRIPT on the window's counter, in the order
\* Redis ran them: the prior value returned and the tokens added
NoHist == [requested |-> 0, admits |-> 0, admitted |-> << >>,
           windows |-> {}, overlapped |-> FALSE, returns |-> << >>]
Hist(key) == IF key \in DOMAIN hist THEN hist[key] ELSE NoHist
Admitted(h, window) == IF window \in DOMAIN h.admitted THEN h.admitted[window] ELSE 0
Returns(h, window) == IF window \in DOMAIN h.returns THEN h.returns[window] ELSE << >>
\* the history after SCRIPT has run for call c and returned prior
Ran(c, prior) ==
  LET h == Hist(c.key)
      run == [prior |-> prior, tokens |-> c.tokens]
  IN (c.key :> [h EXCEPT !.returns =
                  (c.current_window :> Append(Returns(h, c.current_window), run)) @@ @])
       @@ hist

(***************************************************************************)
(* The acquire handler: RateLimiterImpl::acquire, RedisRateLimit::acquire. *)
(***************************************************************************)
\* the keys and token counts of the requests of well-behaved clients, and
\* those of any client
Keys == {"k3", "k4"}
TokenChoices == {1, MAX_TOKENS}
AnyKeys == Keys \cup {""}
AnyTokens == TokenChoices \cup {-1, 0}
\* the number of requests the clients make
MaxCalls == 2

\* request.tokens as u32
as_u32(tokens) == tokens % (U32_MAX + 1)

InFlight(key) == {c \in BagToSet(calls) : c.key = key}

\* a validation that lets a request for zero tokens through
Invalid_negative_only(key, tokens) == tokens < 0 \/ Len(key) = 0

\* the validation of RateLimiterImpl::acquire
Invalid(key, tokens) == tokens <= 0 \/ Len(key) = 0

\* the window indices are u128: U128_BITS bits here
U128_BITS == 4
U128_MAX == 2 ^ U128_BITS - 1
\* a - b on u128 in a build without overflow checks
u128_wrapping_sub(a, b) == (a - b) % 2 ^ U128_BITS
\* a - b on u128 in a build with overflow checks panics
u128_sub_overflows(a, b) == a < b

\* an invalid request is refused before anything else happens
AcquireInvalid(key, tokens, limit) ==
  /\ issued < limit
  /\ Invalid(key, tokens)
  /\ issued' = issued + 1
  /\ last' = [status |-> "InvalidArgument", key |-> key, tokens |-> tokens]
  /\ UNCHANGED <<est, resolver, now, store, calls, hist, lockers>>

\* a valid request: the policy, the clock, the two window keys; the two
\* backend operations are started
AcquireStart(key, tokens, limit) ==
  /\ issued < limit
  /\ ~Invalid(key, tokens)
  /\ issued' = issued + 1
  /\ LET tokens_to_acquire == as_u32(tokens)
         policy == ResolvePolicy(policies, default_policy, key)
         window_ms == policy.window_secs * 1000
         current_window == to_unix_millis(now) \div window_ms
         previous_window == u128_wrapping_sub(current_window, 1)
         current_key == format_key(key, current_window)
         previous_key == format_key(key, previous_window)
         h == Hist(key)
     IN /\ calls' = calls (+) SetToBag(
             {[key |-> key, tokens |-> tokens_to_acquire,
               policy |-> policy, started |-> now,
               current_window |-> current_window,
               previous_window |-> previous_window,
               current_key |-> current_key, previous_key |-> previous_key,
               cur_done |-> FALSE, current |-> 0,
               prev_done |-> FALSE, previous |-> 0,
               cur_err |-> "None", prev_err |-> "None",
               \* history: the times Redis ran the script and the GET of
               \* the call
               increments |-> 0, reads |-> 0,
               \* history: the current window's counter had reached
               \* max_tokens when the call began
               exhausted |-> GET(store, current_key) >= policy.max_tokens]})
        /\ hist' = (key :> [h EXCEPT
                      !.requested = @ + tokens_to_acquire,
                      !.windows = @ \cup {current_window},
                      !.overlapped = @ \/ InFlight(key) # {}]) @@ hist
  /\ UNCHANGED <<est, resolver, now, store, last, lockers>>

\* a valid request in a build with overflow checks, in window 0: the
\* subtraction current_window - 1 panics and the handler's task ends
\* without a reply
AcquirePanics(key, tokens, limit) ==
  /\ issued < limit
  /\ ~Invalid(key, tokens)
  /\ LET policy == ResolvePolicy(policies, default_policy, key)
         window_ms == policy.window_secs * 1000
         current_window == to_unix_millis(now) \div window_ms
     IN /\ u128_sub_overflows(current_window, 1)
        /\ last' = [status |-> "Panic", key |-> key, tokens |-> as_u32(tokens),
                    current_window |-> current_window]
  /\ issued' = issued + 1
  /\ UNCHANGED <<est, resolver, now, store, calls, hist, lockers>>

\* a TTL of one window
ttl_one_window(policy) == policy.window_secs

\* the TTL of a counter: twice the window
ttl(policy) == policy.window_secs * 2

\* fetch_current: Redis runs SCRIPT on the current window's key
FetchCurrent(c) ==
  /\ BagIn(c, calls) /\ ~c.cur_done
  /\ now < c.started + TIMEOUT_MS
  /\ LET r == SCRIPT(store, now, c.current_key, c.tokens, ttl(c.policy))
     IN /\ store' = r.store
        /\ calls' = (calls (-) SetToBag({c})) (+)
                    SetToBag({[c EXCEPT !.cur_done = TRUE, !.current = r.ret,
                                        !.increments = @ + 1]})
        /\ hist' = Ran(c, r.ret)
  /\ UNCHANGED <<est, resolver, now, last, issued, lockers>>

\* fetch_previous: Redis runs GET on the previous window's key
FetchPrevious(c) ==
  /\ BagIn(c, calls) /\ ~c.prev_done
  /\ now < c.started + TIMEOUT_MS
  /\ calls' = (calls (-) SetToBag({c})) (+)
              SetToBag({[c EXCEPT !.prev_done = TRUE,
                                  !.previous = GET(store, c.previous_key),
                                  !.reads = @ + 1]})
  /\ UNCHANGED <<est, resolver, now, store, last, issued, hist, lockers>>

\* remaining as i32: the upper half of u32 wraps to the negative numbers
as_i32(remaining) ==
  IF remaining >= 2 ^ (U32_BITS - 1) THEN remaining - 2 ^ U32_BITS ELSE remaining

\* the AcquireResponse RateLimiterImpl::acquire makes of the estimator's result
Response(result) ==
  IF result.ok
  THEN [allowed |-> TRUE, remaining |-> as_i32(result.remaining),
        reset_after |-> to_unix_millis(result.reset_after)]
  ELSE [allowed |-> FALSE, remaining |-> 0,
        reset_after |-> to_unix_millis(result.reset_after)]

\* timeout!: how an operation that does not return its value ends, at its
\* deadline with Timeout, before it with the error of Redis
Ends(c, err) ==
  IF err = "Timeout" THEN now >= c.started + TIMEOUT_MS
  ELSE err = "RedisError" /\ now < c.started + TIMEOUT_MS

\* a fetch_current that is sent again when it has failed
CurrentFails_retry(c, err, applied) ==
  /\ BagIn(c, calls) /\ ~c.cur_done
  /\ Ends(c, err)
  /\ LET r == SCRIPT(store, now, c.current_key, c.tokens, ttl(c.policy))
     IN /\ store' = IF applied THEN r.store ELSE store
        /\ hist' = IF applied THEN Ran(c, r.ret) ELSE hist
  /\ calls' = (calls (-) SetToBag({c})) (+)
              SetToBag({[c EXCEPT !.increments = IF applied THEN @ + 1 ELSE @]})
  /\ UNCHANGED <<est, resolver, now, last, issued, lockers>>

\* fetch_current fails; Redis may have run the script all the same
CurrentFails(c, err, applied) ==
  /\ BagIn(c, calls) /\ ~c.cur_done
  /\ Ends(c, err)
  /\ LET r == SCRIPT(store, now, c.current_key, c.tokens, ttl(c.policy))
     IN /\ store' = IF applied THEN r.store ELSE store
        /\ hist' = IF applied THEN Ran(c, r.ret) ELSE hist
  /\ calls' = (calls (-) SetToBag({c})) (+)
              SetToBag({[c EXCEPT !.cur_done = TRUE, !.cur_err = err,
                                  !.increments = IF applied THEN @ + 1 ELSE @]})
  /\ UNCHANGED <<est, resolver, now, last, issued, lockers>>

\* fetch_previous fails
PreviousFails(c, err) ==
  /\ BagIn(c, calls) /\ ~c.prev_done
  /\ Ends(c, err)
  /\ calls' = (calls (-) SetToBag({c})) (+)
              SetToBag({[c EXCEPT !.prev_done = TRUE, !.prev_err = err]})
  /\ UNCHANGED <<est, resolver, now, store, last, issued, hist, lockers>>

\* join_and_unwrap!: the error of fetch_current, else that of fetch_previous
JoinErr(c) == IF c.cur_err # "None" THEN c.cur_err ELSE c.prev_err

\* an RPC status that does not tell a timeout from the other failures
StatusUnavailable(err) == "Unavailable"

\* the RPC status RateLimiterImpl::acquire makes of an AcquireErr
StatusOf(err) == IF err = "Timeout" THEN "DeadlineExceeded" ELSE "Unavailable"

\* the RPC error of a call one of whose operations has failed
ErrReply(c) ==
  [status |-> StatusOf(JoinErr(c)), key |-> c.key, tokens |-> c.tokens,
   current_window |-> c.current_window, current |-> c.current,
   cur_err |-> c.cur_err, prev_err |-> c.prev_err,
   increments |-> c.increments, reads |-> c.reads]

\* an error path that takes the tokens back from the counter of the call
DecideErr_rollback(c) ==
  /\ BagIn(c, calls) /\ c.cur_done /\ c.prev_done
  /\ JoinErr(c) # "None"
  /\ last' = ErrReply(c)
  /\ calls' = calls (-) SetToBag({c})
  /\ store' = IF c.cur_err = "None" /\ c.current_key \in DOMAIN store
              THEN [store EXCEPT ![c.current_key].value = @ - c.tokens]
              ELSE store
  /\ UNCHANGED <<est, resolver, now, issued, hist, lockers>>

\* both operations have ended and one has failed: the call ends with an RPC
\* error
DecideErr(c) ==
  /\ BagIn(c, calls) /\ c.cur_done /\ c.prev_done
  /\ JoinErr(c) # "None"
  /\ last' = ErrReply(c)
  /\ calls' = calls (-) SetToBag({c})
  /\ UNCHANGED <<est, resolver, now, store, issued, hist, lockers>>

\* both operations have returned: the estimator decides, the call is answered
Decide(c) ==
  /\ BagIn(c, calls) /\ c.cur_done /\ c.prev_done
  /\ JoinErr(c) = "None"
  /\ LET attempt == AcquireAttempt(c.tokens, c.policy.max_tokens,
                                   c.policy.window_secs, c.previous, c.current)
         response == Response(try_acquire(attempt, now))
         decided_window == to_unix_millis(now) \div as_millis(c.policy.window_secs)
         h == Hist(c.key)
         h2 == [h EXCEPT
                  !.admits = IF response.allowed THEN @ + 1 ELSE @,
                  !.admitted = IF response.allowed
                               THEN (c.current_window :>
                                       (Admitted(h, c.current_window) + c.tokens)) @@ @
                               ELSE @,
                  !.windows = @ \cup {decided_window}]
     IN /\ last' = [status |-> "Ok", key |-> c.key, tokens |-> c.tokens,
                    policy |-> c.policy, current_window |-> c.current_window,
                    previous_window |-> c.previous_window,
                    current |-> c.current, previous |-> c.previous,
                    exhausted |-> c.exhausted,
                    cur_err |-> c.cur_err, prev_err |-> c.prev_err,
                    increments |-> c.increments, reads |-> c.reads,
                    allowed |-> response.allowed,
                    remaining |-> response.remaining,
                    reset_after |-> response.reset_after,
                    \* history: what had been requested on the key when the
                    \* call was answered, and whether its calls had been made
                    \* one after another within one window
                    requested |-> h2.requested,
                    sequential |-> ~h2.overlapped /\ h2.windows = {c.current_window}]
        /\ hist' = (c.key :> h2) @@ hist
  /\ calls' = calls (-) SetToBag({c})
  /\ UNCHANGED <<est, resolver, now, store, issued, lockers>>

\* the instants of the service's clock: the first millisecond, the middle
\* and the last millisecond of each window
ClockInstants ==
  {t \in Instants(as_millis(WINDOW_SECS)) :
     t % as_millis(WINDOW_SECS) \in {0, as_millis(WINDOW_SECS) \div 2,
                                     as_millis(WINDOW_SECS) - 1}}

\* time passes, to the next instant; with a healthy backend every call in
\* flight is answered before its deadline
Tick ==
  /\ \E t \in ClockInstants :
       /\ t > now
       /\ \A u \in ClockInstants : u > now => t <= u
       /\ \A c \in BagToSet(calls) : t < c.started + TIMEOUT_MS
       /\ now' = t
       /\ store' = Expire(store, t)
  /\ UNCHANGED <<est, resolver, calls, last, issued, hist, lockers>>

\* time passes, also past the deadline of a call in flight; a call that is
\* past its deadline ends before time passes again
TickAny ==
  /\ \A c \in BagToSet(calls) : now < c.started + TIMEOUT_MS
  /\ \E t \in ClockInstants :
       /\ t > now
       /\ \A u \in ClockInstants : u > now => t <= u
       /\ now' = t
       /\ store' = Expire(store, t)
  /\ UNCHANGED <<est, resolver, calls, last, issued, hist, lockers>>

Init ==
  /\ est = EstIdle
  /\ resolver = ResolverIdle
  /\ now = as_millis(WINDOW_SECS)
  /\ store = << >>
  /\ calls = EmptyBag
  /\ last = NoReply
  /\ issued = 0
  /\ hist = << >>
  /\ lockers = << >>

Next ==
  \/ \E key \in Keys, tokens \in TokenChoices : AcquireStart(key, tokens, MaxCalls)
  \/ \E c \in BagToSet(calls) : FetchCurrent(c)
  \/ \E c \in BagToSet(calls) : FetchPrevious(c)
  \/ \E c \in BagToSet(calls) : Decide(c)
  \/ Tick

Spec == Init /\ [][Next]_vars

(***************************************************************************)
(* A backend that may fail: operations that time out or end with an error  *)
(* of Redis.  The clients ask for the whole allowance of one key, from the  *)
(* last millisecond before the last window on.                             *)
(***************************************************************************)
AcquireErrs == {"Timeout", "RedisError"}

InitFail ==
  /\ est = EstIdle
  /\ resolver = ResolverIdle
  /\ now = MaxWindow * as_millis(WINDOW_SECS) - 1
  /\ store = << >>
  /\ calls = EmptyBag
  /\ last = NoReply
  /\ issued = 0
  /\ hist = << >>
  /\ lockers = << >>

NextFail ==
  \/ AcquireStart("k3", MAX_TOKENS, MaxCalls)
  \/ \E c \in BagToSet(calls) : FetchCurrent(c)
  \/ \E c \in BagToSet(calls) : FetchPrevious(c)
  \/ \E c \in BagToSet(calls), err \in AcquireErrs, applied \in BOOLEAN :
       CurrentFails(c, err, applied)
  \/ \E c \in BagToSet(calls), err \in AcquireErrs : PreviousFails(c, err)
  \/ \E c \in BagToSet(calls) : Decide(c)
  \/ \E c \in BagToSet(calls) : DecideErr(c)
  \/ TickAny

SpecFail == InitFail /\ [][NextFail]_vars

(***************************************************************************)
(* The life of a counter: the clock runs one window further, to the        *)
(* instants at which the counters of the first window have expired.        *)
(***************************************************************************)
LifeInstants ==
  {w * as_millis(WINDOW_SECS) + o :
     w \in 1..(MaxWindow + 1), o \in {0, as_millis(WINDOW_SECS) - 1}}

TickLife ==
  /\ \E t \in LifeInstants :
       /\ t > now
       /\ \A u \in LifeInstants : u > now => t <= u
       /\ \A c \in BagToSet(calls) : t < c.started + TIMEOUT_MS
       /\ now' = t
       /\ store' = Expire(store, t)
  /\ UNCHANGED <<est, resolver, calls, last, issued, hist, lockers>>

NextLife ==
  \/ \E tokens \in TokenChoices : AcquireStart("k3", tokens, MaxCalls)
  \/ \E c \in BagToSet(calls) : FetchCurrent(c)
  \/ \E c \in BagToSet(calls) : FetchPrevious(c)
  \/ \E c \in BagToSet(calls) : Decide(c)
  \/ TickLife

SpecLife == Init /\ [][NextLife]_vars

(***************************************************************************)
(* The first window: the service is asked while the clock is less than one *)
(* window past the Unix epoch.  The build has overflow checks or has none. *)
(***************************************************************************)
InitZero ==
  /\ est = EstIdle
  /\ resolver = ResolverIdle
  /\ now = as_millis(WINDOW_SECS) - 1
  /\ store = << >>
  /\ calls = EmptyBag
  /\ last = NoReply
  /\ issued = 0
  /\ hist = << >>
  /\ lockers = << >>

NextZero ==
  \/ \E tokens \in TokenChoices : AcquireStart("k3", tokens, MaxCalls)
  \/ \E tokens \in TokenChoices : AcquirePanics("k3", tokens, MaxCalls)
  \/ \E c \in BagToSet(calls) : FetchCurrent(c)
  \/ \E c \in BagToSet(calls) : FetchPrevious(c)
  \/ \E c \in BagToSet(calls) : Decide(c)
  \/ Tick

SpecZero == InitZero /\ [][NextZero]_vars

(***************************************************************************)
(* The windows and keys of calls that begin at different instants, while   *)
(* the backend has not answered any of them yet.                           *)
(***************************************************************************)
TickFree ==
  /\ \E t \in ClockInstants :
       /\ t > now
       /\ \A u \in ClockInstants : u > now => t <= u
       /\ now' = t
       /\ store' = Expire(store, t)
  /\ UNCHANGED <<est, resolver, calls, last, issued, hist, lockers>>

NextKeys ==
  \/ \E key \in Keys, tokens \in TokenChoices : AcquireStart(key, tokens, MaxCalls)
  \/ TickFree

SpecKeys == Init /\ [][NextKeys]_vars

(***************************************************************************)
(* The lock of a resource key: RedisStorage::acquire_rate_limit_lock and   *)
(* the Drop of RedisStorageLockGuard.  The lock keys live in the same      *)
(* Redis as the counters.                                                  *)
(***************************************************************************)
\* the callers and the retries a caller may ask for: none, or MaxRetries
MaxLockers == 2
MaxRetries == 2
LockRetries == {0, MaxRetries}
\* the clock runs until every retry of a caller has been made
MaxLockTicks == MaxRetries + 2
\* retry_interval, in milliseconds; the clock advances by it
RETRY_INTERVAL_MS == 100
\* the ttl a caller may ask for: one retry interval, or three
LockTtls == {RETRY_INTERVAL_MS, 3 * RETRY_INTERVAL_MS}
LockCallers == 1..MaxLockers
LockKey == "k3"

\* format_key!(key) of storage.rs
lock_format_key(key) == "rate_limit_lock:" \o key

\* SET key token PX ttl, without NX: the key is written over
SET_PX(st, t, key, token, px) ==
  [store |-> (key :> [value |-> token, expire_at |-> t + px]) @@ st, ok |-> TRUE]

\* SET key token NX PX ttl at Redis time t: Some when the key was absent
SET_NX_PX(st, t, key, token, px) ==
  IF key \in DOMAIN st
  THEN [store |-> st, ok |-> FALSE]
  ELSE [store |-> (key :> [value |-> token, expire_at |-> t + px]) @@ st,
        ok |-> TRUE]

\* the release script without its comparison: DEL key
RELEASE_any(st, key, token) == [k \in DOMAIN st \ {key} |-> st[k]]

\* the release script: if GET key == token then DEL key
RELEASE(st, key, token) ==
  IF key \in DOMAIN st /\ st[key].value = token
  THEN [k \in DOMAIN st \ {key} |-> st[k]]
  ELSE st

\* Redis drops a key set with PX once its ttl has elapsed
ExpirePx(st, t) == [k \in {k \in DOMAIN st : st[k].expire_at > t} |-> st[k]]

\* acquire_rate_limit_lock is called: the token is drawn (a UUID, here the
\* caller's number: no two calls share a token); the callers are numbered
\* in the order of their calls
LockCall(i, lock_ttl, max_retries) ==
  /\ i \notin DOMAIN lockers
  /\ \A j \in 1..(i - 1) : j \in DOMAIN lockers
  /\ lockers' = (i :> [pc |-> "trying", key |-> LockKey, token |-> i,
                       ttl |-> lock_ttl, retry_interval |-> RETRY_INTERVAL_MS,
                       max_retries |-> max_retries, attempts |-> 0,
                       wake |-> now, expires |-> 0,
                       \* history: the token the release script found
                       found |-> 0]) @@ lockers
  /\ UNCHANGED <<est, resolver, now, store, calls, last, issued, hist>>

\* one turn of the loop: SET NX PX, a guard when it answers Some, else
\* sleep(retry_interval)
LockAttempt(i) ==
  /\ i \in DOMAIN lockers
  /\ lockers[i].pc = "trying"
  /\ lockers[i].attempts < lockers[i].max_retries
  /\ now >= lockers[i].wake
  /\ LET l == lockers[i]
         r == SET_NX_PX(store, now, lock_format_key(l.key), l.token, l.ttl)
     IN /\ store' = r.store
        /\ lockers' = [lockers EXCEPT ![i] =
             IF r.ok
             THEN [l EXCEPT !.pc = "guard", !.attempts = @ + 1, !.wake = 0,
                            !.expires = now + l.ttl]
             ELSE [l EXCEPT !.attempts = @ + 1,
                            !.wake = now + l.retry_interval]]
  /\ UNCHANGED <<est, resolver, now, calls, last, issued, hist>>

\* the SET ends with an error of Redis, which `?` returns; Redis may have
\* set the key all the same
LockRedisError(i, applied) ==
  /\ i \in DOMAIN lockers
  /\ lockers[i].pc = "trying"
  /\ lockers[i].attempts < lockers[i].max_retries
  /\ now >= lockers[i].wake
  /\ LET l == lockers[i]
         r == SET_NX_PX(store, now, lock_format_key(l.key), l.token, l.ttl)
     IN /\ store' = IF applied THEN r.store ELSE store
        /\ lockers' = [lockers EXCEPT ![i] =
                         [l EXCEPT !.pc = "RedisError", !.attempts = @ + 1,
                                   !.wake = 0]]
  /\ UNCHANGED <<est, resolver, now, calls, last, issued, hist>>

\* the loop is over: Err(AcquireLockErr::MaxRetriesExceeded)
LockGiveUp(i) ==
  /\ i \in DOMAIN lockers
  /\ lockers[i].pc = "trying"
  /\ lockers[i].attempts >= lockers[i].max_retries
  /\ now >= lockers[i].wake
  /\ lockers' = [lockers EXCEPT ![i].pc = "MaxRetriesExceeded", ![i].wake = 0]
  /\ UNCHANGED <<est, resolver, now, store, calls, last, issued, hist>>

\* the guard is dropped: the release task is spawned
GuardDrop(i) ==
  /\ i \in DOMAIN lockers
  /\ lockers[i].pc = "guard"
  /\ lockers' = [lockers EXCEPT ![i].pc = "dropped"]
  /\ UNCHANGED <<est, resolver, now, store, calls, last, issued, hist>>

\* the release task runs its script
Release(i) ==
  /\ i \in DOMAIN lockers
  /\ lockers[i].pc = "dropped"
  /\ store' = RELEASE(store, lock_format_key(lockers[i].key), lockers[i].token)
  /\ lockers' = [lockers EXCEPT ![i].pc = "released",
                                ![i].found = GET(store, lock_format_key(lockers[i].key))]
  /\ UNCHANGED <<est, resolver, now, calls, last, issued, hist>>

\* time passes, by one retry interval
TickLock ==
  /\ now < as_millis(WINDOW_SECS) + MaxLockTicks * RETRY_INTERVAL_MS
  /\ now' = now + RETRY_INTERVAL_MS
  /\ store' = ExpirePx(store, now + RETRY_INTERVAL_MS)
  /\ UNCHANGED <<est, resolver, calls, last, issued, hist, lockers>>

NextLock ==
  \/ \E i \in LockCallers, lock_ttl \in LockTtls, max_retries \in LockRetries :
       LockCall(i, lock_ttl, max_retries)
  \/ \E i \in LockCallers : LockAttempt(i)
  \/ \E i \in LockCallers, applied \in BOOLEAN : LockRedisError(i, applied)
  \/ \E i \in LockCallers : LockGiveUp(i)
  \/ \E i \in LockCallers : GuardDrop(i)
  \/ \E i \in LockCallers : Release(i)
  \/ TickLock

SpecLock == Init /\ [][NextLock]_vars

(***************************************************************************)
(* Requests of any client, valid or not, at one instant.                   *)
(***************************************************************************)
NextAny ==
  \/ \E key \in AnyKeys, tokens \in AnyTokens : AcquireInvalid(key, tokens, MaxCalls)
  \/ \E key \in AnyKeys, tokens \in AnyTokens : AcquireStart(key, tokens, MaxCalls)
  \/ \E c \in BagToSet(calls) : FetchCurrent(c)
  \/ \E c \in BagToSet(calls) : FetchPrevious(c)
  \/ \E c \in BagToSet(calls) : Decide(c)

SpecAny == Init /\ [][NextAny]_vars

(***************************************************************************)
(* test_concurrent_requests: CONC_CALLS requests of CONC_TOKENS tokens on  *)
(* one fresh key.                                                          *)
(***************************************************************************)
CONC_CALLS == 5
CONC_TOKENS == 2

InitConc ==
  /\ est = EstIdle
  /\ resolver = ResolverIdle
  /\ now = MaxWindow * as_millis(WINDOW_SECS) - 1
  /\ store = << >>
  /\ calls = EmptyBag
  /\ last = NoReply
  /\ issued = 0
  /\ hist = << >>
  /\ lockers = << >>

NextConc ==
  \/ AcquireStart("k5", CONC_TOKENS, CONC_CALLS)
  \/ \E c \in BagToSet(calls) : FetchCurrent(c)
  \/ \E c \in BagToSet(calls) : FetchPrevious(c)
  \/ \E c \in BagToSet(calls) : Decide(c)
  \/ Tick

SpecConc == InitConc /\ [][NextConc]_vars

(***************************************************************************)
(* The estimator on its own: Init draws an attempt and an instant, the one *)
(* action applies try_acquire.                                             *)
(***************************************************************************)
\* the counts drawn: 0..MaxCurr and 0..MaxPrev, and the largest u32
MaxCurr == 10
MaxPrev == 25
EstCurr == (0..MaxCurr) \cup {U32_MAX}
EstPrev == (0..MaxPrev) \cup {U32_MAX}
EstTokens == {0, 1, 2, MAX_TOKENS, MAX_TOKENS + 1, U32_MAX}
EstMaxTokens == {0, 1, MAX_TOKENS, 2 * MAX_TOKENS, U32_MAX}
EstInstants(window_ms) ==
  {t \in Instants(window_ms) : t \div window_ms \in {1, MaxWindow}}

InitEst ==
  /\ \E tokens \in EstTokens, max \in EstMaxTokens, secs \in EstWindowSecs,
        prev \in EstPrev, curr \in EstCurr :
       \E t \in EstInstants(as_millis(secs)) :
         est = [pc |-> "ready",
                attempt |-> AcquireAttempt(tokens, max, secs, prev, curr),
                now |-> t,
                result |-> NoResult,
                response |-> NoResponse]
  /\ resolver = ResolverIdle
  /\ now = 0
  /\ store = << >>
  /\ calls = EmptyBag
  /\ last = NoReply
  /\ issued = 0
  /\ hist = << >>
  /\ lockers = << >>

TryAcquire ==
  /\ est.pc = "ready"
  /\ est' = [est EXCEPT !.pc = "done", !.result = try_acquire(est.attempt, est.now)]
  /\ UNCHANGED <<resolver, now, store, calls, last, issued, hist, lockers>>

\* RateLimiterImpl::acquire makes the reply of the estimator's result
Respond ==
  /\ est.pc = "done"
  /\ est' = [est EXCEPT !.pc = "replied", !.response = Response(est.result)]
  /\ UNCHANGED <<resolver, now, store, calls, last, issued, hist, lockers>>

NextEst == TryAcquire \/ Respond

SpecEst == InitEst /\ [][NextEst]_vars

(***************************************************************************)
(* The policy resolver on its own: one resolution of a key against a rule  *)
(* sequence.                                                               *)
(***************************************************************************)
\* the longest rule sequence and the largest priority
MaxRules == 3
MaxPriority == 1
RulePatterns == {"k", "k3"}
PatternTypes == {"Exact", "Prefix"}
ResolveKeys == Keys \cup {"k"}
RuleKinds ==
  [pattern : RulePatterns, pattern_type : PatternTypes, priority : 0..MaxPriority]
\* the rule at place i carries a policy of its own: max_tokens = i
PolicyRule(kind, i) ==
  [pattern |-> kind.pattern, pattern_type |-> kind.pattern_type,
   priority |-> kind.priority,
   policy |-> [max_tokens |-> i, window_secs |-> WINDOW_SECS]]
\* the rule sequence made of a sequence of kinds
PolicyRules(kinds) == [i \in 1..Len(kinds) |-> PolicyRule(kinds[i], i)]

InitResolve ==
  /\ \E n \in 0..MaxRules : \E kinds \in [1..n -> RuleKinds] :
       \E key \in ResolveKeys :
         resolver = [pc |-> "ready", rules |-> PolicyRules(kinds), key |-> key,
                     policy |-> default_policy]
  /\ est = EstIdle
  /\ now = 0
  /\ store = << >>
  /\ calls = EmptyBag
  /\ last = NoReply
  /\ issued = 0
  /\ hist = << >>
  /\ lockers = << >>

Resolve ==
  /\ resolver.pc = "ready"
  /\ resolver' = [resolver EXCEPT
                    !.pc = "done",
                    !.policy = ResolvePolicy(resolver.rules, default_policy,
                                             resolver.key)]
  /\ UNCHANGED <<est, now, store, calls, last, issued, hist, lockers>>

NextResolve == Resolve

SpecResolve == InitResolve /\ [][NextResolve]_vars

(***************************************************************************)
(* Properties of the estimator (SpecEst).                                  *)
(***************************************************************************)
EstDone == est.pc = "done"
EstWindowMs == as_millis(est.attempt.window_duration)
EstRemainingTime == EstWindowMs - (est.now % EstWindowMs)
EstCurrTokens ==
  est.attempt.current_window_requests + est.attempt.tokens_to_acquire

\* C1 (denial floor): when the counter of the current window plus the
\* requested tokens, added with saturation, exceeds the maximum, try_acquire
\* answers RateLimitExceeded, whatever the previous window and the clock are.
C1_DenialFloor ==
  (EstDone /\ Min(EstCurrTokens, U32_MAX) > est.attempt.max_tokens_per_window)
    => ~est.result.ok

\* the floor denies a request that the weighted estimate alone would admit
\* only just: no previous usage, the counter one token short of the maximum
C1_Witness ==
  /\ EstDone
  /\ est.attempt.previous_window_requests = 0
  /\ est.attempt.max_tokens_per_window = MAX_TOKENS
  /\ est.attempt.current_window_requests = MAX_TOKENS - 1
  /\ est.attempt.tokens_to_acquire = 2
  /\ ~est.result.ok

\* C4 (admission ceiling): an admission leaves remaining + tokens <= max.
C4_AdmissionCeiling ==
  (EstDone /\ est.result.ok)
    => est.result.remaining + est.attempt.tokens_to_acquire
         <= est.attempt.max_tokens_per_window

\* an admission with usage in both windows
C4_Witness ==
  /\ EstDone
  /\ est.result.ok
  /\ est.attempt.tokens_to_acquire = 2
  /\ est.attempt.current_window_requests > 0
  /\ est.attempt.previous_window_requests > 0
  /\ est.result.remaining > 0

\* C6 (reset in the future): the reset time of every answer, admission or
\* denial, is later than now and at most one window later.
C6_ResetFuture ==
  EstDone => /\ est.now < est.result.reset_after
             /\ est.result.reset_after <= est.now + EstWindowMs

\* answers at a window boundary (reset a full window away) and in the last
\* millisecond of a window (reset one millisecond away)
C6_Witness ==
  /\ EstDone
  /\ est.attempt.window_duration = WINDOW_SECS
  /\ \/ est.now % EstWindowMs = 0 /\ est.result.reset_after = est.now + EstWindowMs
     \/ est.now % EstWindowMs = EstWindowMs - 1 /\ est.result.reset_after = est.now + 1
\* the reference rule of the estimator, in exact arithmetic: the quotient
\* prev * remaining / window_ms, its rounding to the nearest integer (halves
\* away from zero), and the decision for a rounded weight r
ExactTwice == 2 * est.attempt.previous_window_requests * EstRemainingTime
ExactRound == (ExactTwice + EstWindowMs) \div (2 * EstWindowMs)
ExactHalf == ExactTwice % (2 * EstWindowMs) = EstWindowMs
RefUsed(r) == est.attempt.current_window_requests + r
RefAdmits(r) ==
  /\ EstCurrTokens <= est.attempt.max_tokens_per_window
  /\ RefUsed(r) + est.attempt.tokens_to_acquire
       <= est.attempt.max_tokens_per_window
RefRemaining(r) ==
  est.attempt.max_tokens_per_window
    - (RefUsed(r) + est.attempt.tokens_to_acquire)
AgreesWithRef(r) ==
  /\ est.result.ok <=> RefAdmits(r)
  /\ est.result.ok => est.result.remaining = RefRemaining(r)
\* the inputs of the rule: no sum of theirs reaches the end of u32
EstInRange ==
  est.attempt.current_window_requests + est.attempt.previous_window_requests
    + est.attempt.tokens_to_acquire <= U32_MAX
EstExample(secs, offset, max, prev, curr, tokens) ==
  /\ est.attempt = AcquireAttempt(tokens, max, secs, prev, curr)
  /\ est.now % EstWindowMs = offset

\* C5 as stated: on inputs in range the answer of try_acquire is the answer
\* of the reference rule with the weight prev * remaining / window_ms rounded
\* to the nearest integer, halves away from zero.
C5_ReferenceExact == (EstDone /\ EstInRange) => AgreesWithRef(ExactRound)

\* C5 (estimator equals the reference rule): on inputs in range the answer of
\* try_acquire is the answer of the reference rule, used = curr + r, admitted
\* iff curr + tokens <= max and used + tokens <= max, remaining = max - (used
\* + tokens), where r is prev * remaining / window_ms rounded to the nearest
\* integer when the quotient is not half way between two integers, and one of
\* the two neighbours when it is (the code rounds the product of prev and the
\* double remaining / window_ms, which may fall on either side of the half);
\* window 60 s, max 10: 30 s in, prev 8, curr 5, one token is admitted with
\* remaining 0, and at the window start prev 10, curr 0, one token is denied.
C5_ReferenceRule ==
  /\ (EstDone /\ EstInRange)
       => \/ AgreesWithRef(ExactRound)
          \/ ExactHalf /\ AgreesWithRef(ExactRound - 1)
  /\ (EstDone /\ EstExample(WINDOW_SECS, as_millis(WINDOW_SECS) \div 2,
                            MAX_TOKENS, 8, 5, 1))
       => est.result.ok /\ est.result.remaining = 0
  /\ (EstDone /\ EstExample(WINDOW_SECS, 0, MAX_TOKENS, MAX_TOKENS, 0, 1))
       => ~est.result.ok

\* an admission on the 60 s window whose quotient is half way between two
\* integers (prev 25 with 58% of the window left: 14.5), answered with the
\* lower neighbour
C5_Witness ==
  /\ EstDone
  /\ EstInRange
  /\ est.attempt.window_duration = WINDOW_SECS
  /\ ExactHalf
  /\ est.result.ok
  /\ est.result.remaining = RefRemaining(ExactRound - 1)
\* the sums of the estimator with saturation at the end of u32, for a
\* rounded weight r
SatCurrTokens == Min(EstCurrTokens, U32_MAX)
SatUsed(r) == Min(est.attempt.current_window_requests + r, U32_MAX)
SatPossible(r) == Min(SatUsed(r) + est.attempt.tokens_to_acquire, U32_MAX)
SatAnswer(r) ==
  IF \/ SatCurrTokens > est.attempt.max_tokens_per_window
     \/ SatPossible(r) > est.attempt.max_tokens_per_window
  THEN ~est.result.ok
  ELSE /\ est.result.ok
       /\ est.result.remaining = est.attempt.max_tokens_per_window - SatPossible(r)

\* C18 (saturation safety): over the whole u32 range of tokens, max, prev
\* and curr, every window of at least 1 s and every instant, try_acquire
\* answers with an admission or RateLimitExceeded, and no sum wraps: curr +
\* tokens, curr + weighted prev and used + tokens stop at the largest u32,
\* max - (used + tokens) stops at 0, and every value of the answer is a u32.
C18_SaturationSafety ==
  EstDone
    => /\ est.result.ok \in BOOLEAN
       /\ est.result.remaining \in 0..U32_MAX
       /\ \/ SatAnswer(ExactRound)
          \/ ExactHalf /\ SatAnswer(ExactRound - 1)

\* the largest previous count at the start of a window, weighted in full,
\* under the largest maximum: curr + weighted prev and used + tokens stop at
\* the largest u32 and the answer is an admission with remaining 0
C18_Witness ==
  /\ EstDone
  /\ est.attempt.previous_window_requests = U32_MAX
  /\ est.attempt.current_window_requests = MAX_TOKENS
  /\ est.attempt.tokens_to_acquire = 1
  /\ est.attempt.max_tokens_per_window = U32_MAX
  /\ est.now % EstWindowMs = 0
  /\ est.result.ok
  /\ est.result.remaining = 0

\* C14 (reply mapping) as stated: a denial of the estimator is answered
\* allowed = false, remaining = 0 and the estimator's reset instant; an
\* admission is answered allowed = true with the estimator's remaining and
\* reset instant.
C14_ReplyMapping ==
  est.pc = "replied"
    => /\ est.response.allowed = est.result.ok
       /\ est.response.reset_after = est.result.reset_after
       /\ est.response.remaining = IF est.result.ok THEN est.result.remaining ELSE 0

(***************************************************************************)
(* Properties of the acquire handler (Spec, SpecConc, SpecAny).            *)
(***************************************************************************)
Answered == last.status = "Ok"
Windows == 0..MaxWindow

\* C2 (no admission over the counter): a call is never admitted when the
\* prior value its atomic increment returned plus its tokens exceeds the
\* maximum; hence the tokens of the calls admitted against one window's
\* counter never sum to more than the maximum.
C2_CounterBound ==
  /\ (Answered /\ last.allowed)
       => last.current + last.tokens <= last.policy.max_tokens
  /\ \A key \in Keys, window \in Windows :
       Admitted(Hist(key), window) <= default_policy.max_tokens

\* a call denied on its returned prior value while another call on the same
\* key was in flight, the window's admissions standing at the maximum
C2_Witness ==
  /\ Answered
  /\ ~last.allowed
  /\ last.current + last.tokens > last.policy.max_tokens
  /\ Hist(last.key).overlapped
  /\ Admitted(Hist(last.key), last.current_window) = last.policy.max_tokens

\* C7 (sequential calls on a fresh key): calls made one after another within
\* one window on a key with no counter are admitted as long as the running
\* sum of their tokens is at most the maximum, with remaining = max - sum.
C7_SequentialFresh ==
  (Answered /\ last.sequential /\ last.requested <= last.policy.max_tokens)
    => /\ last.allowed
       /\ last.remaining = last.policy.max_tokens - last.requested

\* the second of two sequential one-token calls: remaining 8
C7_Witness ==
  /\ Answered
  /\ last.sequential
  /\ last.tokens = 1
  /\ last.requested = 2
  /\ Hist(last.key).admits = 2
  /\ last.allowed
  /\ last.remaining = MAX_TOKENS - 2

\* C8 (exhaustion): once the counter of the current window has reached the
\* maximum, every later acquire in that window is answered allowed = false,
\* remaining = 0.
C8_Exhaustion ==
  (Answered /\ last.exhausted) => (~last.allowed /\ last.remaining = 0)

\* a one-token call on a key whose ten tokens were admitted before
C8_Witness ==
  /\ Answered
  /\ last.exhausted
  /\ last.tokens = 1
  /\ Admitted(Hist(last.key), last.current_window) = MAX_TOKENS
  /\ ~last.allowed
  /\ last.remaining = 0

\* C9 (isolation): an acquire on one key touches the counters of that key
\* only: every counter in Redis belongs to a key and holds no more than was
\* requested on that key, and the first call on a key is admitted with
\* remaining = max - tokens whatever happened on the other keys.
C9_Isolation ==
  /\ DOMAIN store \subseteq {format_key(key, window) : key \in Keys, window \in Windows}
  /\ \A key \in Keys, window \in Windows :
       GET(store, format_key(key, window)) <= Hist(key).requested
  /\ (Answered /\ last.requested = last.tokens)
       => /\ last.allowed
          /\ last.remaining = last.policy.max_tokens - last.tokens

\* the first call on k4 is admitted after k3 has been exhausted
C9_Witness ==
  /\ Answered
  /\ last.key = "k4"
  /\ last.requested = last.tokens
  /\ last.allowed
  /\ last.remaining = MAX_TOKENS - last.tokens
  /\ GET(store, format_key("k3", last.current_window)) >= MAX_TOKENS

\* C3 (five parallel calls): five concurrent acquires of 2 tokens on a fresh
\* key under the policy max 10, window 60 s are all admitted, in every
\* interleaving.
C3_FiveParallel ==
  /\ Answered => last.allowed
  /\ (issued = CONC_CALLS /\ calls = EmptyBag)
       => Hist("k5").admits = CONC_CALLS

\* the five calls were in flight together and all five are answered
C3_Witness ==
  /\ issued = CONC_CALLS
  /\ calls = EmptyBag
  /\ Hist("k5").overlapped
  /\ Hist("k5").admits = CONC_CALLS
  /\ Answered /\ last.allowed /\ last.current = (CONC_CALLS - 1) * CONC_TOKENS

\* C10 (invalid input): a request with tokens <= 0 or an empty key is
\* answered InvalidArgument in the step that receives it: no backend
\* operation is started, no counter is created or changed.
C10_InvalidInput ==
  [][(\E key \in AnyKeys, tokens \in AnyTokens :
        /\ tokens <= 0 \/ key = ""
        /\ \/ AcquireInvalid(key, tokens, MaxCalls)
           \/ AcquireStart(key, tokens, MaxCalls))
       => /\ last'.status = "InvalidArgument"
          /\ UNCHANGED <<store, calls, hist, lockers>>]_vars

\* a request for zero tokens refused while a counter exists and a call is
\* in flight
C10_Witness ==
  /\ last.status = "InvalidArgument"
  /\ last.tokens = 0
  /\ store # << >>
  /\ calls # EmptyBag
(***************************************************************************)
(* Properties of the policy resolver (SpecResolve).                        *)
(***************************************************************************)
Resolved == resolver.pc = "done"
\* rule i matches the key: an Exact pattern is the key, a Prefix pattern
\* begins it
RuleMatches(i) ==
  LET rule == resolver.rules[i]
      n == Len(rule.pattern)
  IN IF rule.pattern_type = "Exact" THEN rule.pattern = resolver.key
     ELSE /\ n <= Len(resolver.key)
          /\ SubSeq(resolver.key, 1, n) = rule.pattern
Matching == {i \in 1..Len(resolver.rules) : RuleMatches(i)}
TopPriority(i) ==
  \A j \in Matching : resolver.rules[j].priority <= resolver.rules[i].priority
Top == {i \in Matching : TopPriority(i)}

\* C11 (policy priority): when several rules match the key, the policy used
\* is that of a matching rule whose priority is the largest among the
\* matching rules, wherever it stands in the sequence.
C11_PolicyPriority ==
  (Resolved /\ Matching # {})
    => \E i \in Top : resolver.policy = resolver.rules[i].policy

\* three rules match, the one of the largest priority stands in the middle
C11_Witness ==
  /\ Resolved
  /\ Cardinality(Matching) = 3
  /\ Top = {2}
  /\ resolver.policy = resolver.rules[2].policy

\* C12 (policy tie-break) as stated: when two or more matching rules share
\* the largest priority, the policy used is that of the first of them in the
\* sequence.
C12_FirstOccurrence ==
  (Resolved /\ Cardinality(Top) >= 2)
    => \E i \in Top : /\ \A j \in Top : i <= j
                      /\ resolver.policy = resolver.rules[i].policy

\* C13 (policy fallback): the default policy is used if and only if no rule
\* matches the key (Exact: the pattern equals the key, Prefix: the key
\* starts with the pattern); a resolution always yields a policy.
C13_PolicyFallback ==
  Resolved
    => /\ resolver.policy = default_policy <=> Matching = {}
       /\ resolver.policy \in
            {default_policy} \cup {resolver.rules[i].policy : i \in 1..Len(resolver.rules)}

\* rules that all miss the key k4 (exact patterns, and the prefix k3), and
\* the default policy used
C13_Witness ==
  /\ Resolved
  /\ resolver.key = "k4"
  /\ Len(resolver.rules) = MaxRules
  /\ \E i \in 1..Len(resolver.rules) : resolver.rules[i].pattern_type = "Prefix"
  /\ Matching = {}
  /\ resolver.policy = default_policy
(***************************************************************************)
(* Properties of the counters (Spec, SpecConc).                            *)
(***************************************************************************)
WindowMs == as_millis(default_policy.window_secs)
\* the window that holds the clock
NowWindow == now \div WindowMs
\* the tokens the first n runs of a counter's script added
RECURSIVE Added(_, _)
Added(runs, n) == IF n = 0 THEN 0 ELSE Added(runs, n - 1) + runs[n].tokens
Incremented(key, window) == Returns(Hist(key), window) # << >>
CounterOf(key, window) == format_key(key, window)

\* C16 (TTL survival): a counter of window i that was incremented has not
\* expired at any instant of window i or i + 1, where it holds everything
\* that was added to it, so a read of the previous window made during
\* window i + 1 returns the stored value.
C16_TtlSurvival ==
  \A key \in Keys, window \in Windows :
    (Incremented(key, window) /\ NowWindow \in {window, window + 1})
      => /\ CounterOf(key, window) \in DOMAIN store
         /\ GET(store, CounterOf(key, window))
              = Added(Returns(Hist(key), window), Len(Returns(Hist(key), window)))

\* the last instant of window i + 1: the counter of window i is there, and
\* a call of window i + 1 has read it as its previous counter
C16_Witness ==
  /\ now % WindowMs = WindowMs - 1
  /\ Answered
  /\ last.current_window = NowWindow
  /\ Incremented(last.key, NowWindow - 1)
  /\ last.previous = MAX_TOKENS
  /\ GET(store, CounterOf(last.key, NowWindow - 1)) = MAX_TOKENS

\* C17 (atomic increment): every run of the script adds its tokens to the
\* counter and returns the value the counter had just before; the priors
\* returned to concurrent calls on one counter are the partial sums of their
\* tokens in the order Redis ran them, and the counter ends at the sum of
\* all the tokens: no update is lost.
C17_AtomicIncrement ==
  \A window \in Windows :
    LET runs == Returns(Hist("k5"), window)
    IN /\ \A i \in 1..Len(runs) : runs[i].prior = Added(runs, i - 1)
       /\ CounterOf("k5", window) \in DOMAIN store
            => GET(store, CounterOf("k5", window)) = Added(runs, Len(runs))
       /\ \A c \in BagToSet(calls) :
            (c.current_window = window /\ c.cur_done)
              => \E i \in 1..Len(runs) : runs[i].prior = c.current

\* five increments ran on one counter while the five calls were in flight
C17_Witness ==
  /\ BagCardinality(calls) = CONC_CALLS
  /\ \A c \in BagToSet(calls) : c.cur_done
  /\ {c.current : c \in BagToSet(calls)}
       = {(i - 1) * CONC_TOKENS : i \in 1..CONC_CALLS}
  /\ \E window \in Windows :
       GET(store, CounterOf("k5", window)) = CONC_CALLS * CONC_TOKENS

\* C19 (increment before decide): after a call is answered allowed = false,
\* the counter of its window holds the prior value the call got plus the
\* tokens it asked for, for the rest of the window: the denied request has
\* used counter space.
C19_IncrementBeforeDecide ==
  (Answered /\ ~last.allowed /\ NowWindow \in {last.current_window, last.current_window + 1})
    => GET(store, CounterOf(last.key, last.current_window))
         >= last.current + last.tokens

\* a one-token call denied on an exhausted counter, which now stands at 11
C19_Witness ==
  /\ Answered
  /\ ~last.allowed
  /\ last.tokens = 1
  /\ last.current = MAX_TOKENS
  /\ NowWindow = last.current_window
  /\ GET(store, CounterOf(last.key, last.current_window)) = MAX_TOKENS + 1

\* C20 (one window per call) as stated: the window whose index names the
\* counters of a call is the window the estimator takes the weight and the
\* reset instant from, so the reset instant of the answer is the end of the
\* window of the counters.
C20_OneWindowPerCall ==
  Answered => last.reset_after = (last.current_window + 1) * WindowMs
(***************************************************************************)
(* Properties of the failures of the backend (SpecFail).                   *)
(***************************************************************************)
Ended == last.status \in {"Ok", "DeadlineExceeded", "Unavailable"}
\* the ways in which the operations of the answered call failed
Failures == {last.cur_err, last.prev_err} \ {"None"}

C21_PartialFailure ==
  (Ended /\ last.cur_err = "None" /\ last.prev_err # "None")
    => /\ last.status \in {"DeadlineExceeded", "Unavailable"}
       /\ NowWindow \in {last.current_window, last.current_window + 1}
            => /\ CounterOf(last.key, last.current_window) \in DOMAIN store
               /\ GET(store, CounterOf(last.key, last.current_window))
                    >= last.current + last.tokens

\* the second call of a window: its increment returned the first call's
\* tokens, its read failed with an error of Redis, and the counter holds the
\* tokens of both
C21_Witness ==
  /\ last.status = "Unavailable"
  /\ last.cur_err = "None"
  /\ last.prev_err = "RedisError"
  /\ last.current = MAX_TOKENS
  /\ NowWindow = last.current_window
  /\ GET(store, CounterOf(last.key, last.current_window)) = 2 * MAX_TOKENS

\* the runs of the script on the counters of a key, over all its windows
RECURSIVE Runs(_, _)
Runs(key, window) ==
  IF window < 0 THEN 0
  ELSE Len(Returns(Hist(key), window)) + Runs(key, window - 1)
\* the calls begun on a key, each for MAX_TOKENS tokens
Begun(key) == Hist(key).requested \div MAX_TOKENS

\* C22 (no retries): Redis runs the increment of a call at most once and
\* its read at most once, whatever the outcome of either; a call that is
\* answered has had exactly one of each; the script has run on the counters
\* of a key at most once per call begun, and every run has raised its
\* counter by the tokens of its call, so a living counter holds the prior
\* value of its first run plus the tokens of its runs.
C22_NoRetries ==
  /\ \A c \in BagToSet(calls) :
       /\ c.increments <= 1 /\ c.reads <= 1
       /\ (c.cur_done /\ c.cur_err = "None") => c.increments = 1
       /\ (c.prev_done /\ c.prev_err = "None") => c.reads = 1
       /\ ~c.cur_done => c.increments = 0
       /\ ~c.prev_done => c.reads = 0
  /\ Ended => /\ last.increments <= 1 /\ last.reads <= 1
              /\ last.status = "Ok" => last.increments = 1 /\ last.reads = 1
  /\ \A key \in Keys :
       /\ Runs(key, MaxWindow) <= Begun(key)
       /\ \A window \in Windows :
            LET runs == Returns(Hist(key), window)
            IN /\ \A i \in 1..Len(runs) :
                    /\ runs[i].tokens = MAX_TOKENS
                    /\ i > 1 => runs[i].prior >= runs[i - 1].prior + runs[i - 1].tokens
               /\ CounterOf(key, window) \in DOMAIN store
                    => GET(store, CounterOf(key, window))
                         = Added(runs, Len(runs))

\* both calls have ended, the later one answered after its increment found
\* the tokens of the other: two runs of the script, and the counter holds
\* the tokens of both, each once
C22_Witness ==
  /\ issued = MaxCalls
  /\ calls = EmptyBag
  /\ last.status = "Ok"
  /\ last.current = MAX_TOKENS
  /\ Runs(last.key, MaxWindow) = 2
  /\ GET(store, CounterOf(last.key, last.current_window)) = 2 * MAX_TOKENS
(***************************************************************************)
(* Properties of the life of a counter (SpecLife).                         *)
(***************************************************************************)
\* C23 (counter lifecycle): in every step, a counter that is still there
\* has kept its value or has grown by the positive token count of one
\* request, and a counter that is gone had reached its expiry time: no
\* operation of the service lowers or deletes a counter.
C23_CounterLifecycle ==
  [][\A k \in DOMAIN store :
       IF k \in DOMAIN store'
       THEN /\ store'[k].value >= store[k].value
            /\ store'[k].value # store[k].value
                 => /\ store'[k].value - store[k].value \in TokenChoices
                    /\ store'[k].value - store[k].value > 0
       ELSE store[k].expire_at < now']_vars

\* the counter of window 1 was incremented twice and has expired, two
\* windows later
C23_Witness ==
  /\ Len(Returns(Hist("k3"), 1)) = 2
  /\ Returns(Hist("k3"), 1)[2].prior > 0
  /\ CounterOf("k3", 1) \notin DOMAIN store
  /\ NowWindow = MaxWindow + 1
(***************************************************************************)
(* Properties of the first window (SpecZero).                              *)
(***************************************************************************)
\* C24 (window-zero guard) as stated: a call made while the current window
\* index is 0 is answered by the estimator with a previous count of 0, and
\* the index of its previous window has not underflowed: no call of window
\* 0 carries the index u128::MAX or ends in a panic.
C24_WindowZeroGuard ==
  /\ \A c \in BagToSet(calls) :
       c.current_window = 0 => c.previous_window # U128_MAX
  /\ (last.status # "None" /\ last.current_window = 0)
       => /\ last.status = "Ok"
          /\ last.previous = 0
          /\ last.previous_window # U128_MAX
(***************************************************************************)
(* Further properties of the estimator (SpecEst).                          *)
(***************************************************************************)
\* try_acquire without its hard cap: the weighted estimate decides alone
try_acquire_uncapped(attempt, clock_now) ==
  LET window_ms == as_millis(attempt.window_duration)
      unix_now == to_unix_millis(clock_now)
      remaining == remaining_window_time(unix_now, window_ms)
      reset_after == clock_now + remaining
      estimate == used(attempt, remaining, window_ms)
      possible == possible_used(estimate, attempt.tokens_to_acquire)
  IN IF possible > attempt.max_tokens_per_window
     THEN RateLimitExceeded(reset_after)
     ELSE Ok(saturating_sub(attempt.max_tokens_per_window, possible), reset_after)

\* C25 (hard-cap redundancy): on every input try_acquire returns what it
\* would return without the hard cap, and whenever the hard cap holds the
\* weighted estimate plus the tokens exceeds the maximum too.
C25_HardCapRedundant ==
  EstDone
    => /\ est.result = try_acquire_uncapped(est.attempt, est.now)
       /\ hard_cap(est.attempt)
            => possible_used(used(est.attempt, EstRemainingTime, EstWindowMs),
                             est.attempt.tokens_to_acquire)
                 > est.attempt.max_tokens_per_window

\* the hard cap holds by one token, with a previous window that weighs
\* nothing: the weighted estimate is the counter, and denies as well
C25_Witness ==
  /\ EstDone
  /\ hard_cap(est.attempt)
  /\ est.attempt.previous_window_requests = 0
  /\ est.attempt.max_tokens_per_window = MAX_TOKENS
  /\ est.attempt.current_window_requests = MAX_TOKENS
  /\ est.attempt.tokens_to_acquire = 1
  /\ used(est.attempt, EstRemainingTime, EstWindowMs) = MAX_TOKENS
  /\ ~est.result.ok

LaterInstants ==
  {t \in EstInstants(EstWindowMs) :
     t >= est.now /\ t \div EstWindowMs = est.now \div EstWindowMs}

\* C27 (decreasing weight of the previous window): the counts, the tokens
\* and the maximum being the same, an attempt admitted at one instant of a
\* window is admitted at every later instant of that window, with at least
\* as much remaining.
C27_DecreasingWeight ==
  (EstDone /\ est.result.ok)
    => \A t \in LaterInstants :
         /\ try_acquire(est.attempt, t).ok
         /\ try_acquire(est.attempt, t).remaining >= est.result.remaining

\* 10 requests in the previous window, none in this one: one token leaves
\* 3 at 42% of the window and 4 at half of it, and is denied at its start
C27_Witness ==
  /\ EstDone
  /\ est.attempt.previous_window_requests = MAX_TOKENS
  /\ est.attempt.current_window_requests = 0
  /\ est.attempt.max_tokens_per_window = MAX_TOKENS
  /\ est.attempt.tokens_to_acquire = 1
  /\ est.now % EstWindowMs = (42 * EstWindowMs) \div 100
  /\ est.result.ok /\ est.result.remaining = 3
  /\ \E t \in LaterInstants :
       /\ t % EstWindowMs = EstWindowMs \div 2
       /\ try_acquire(est.attempt, t).remaining = 4
  /\ ~try_acquire(est.attempt, est.now - (est.now % EstWindowMs)).ok
(***************************************************************************)
(* Properties of the window index (SpecKeys).                              *)
(***************************************************************************)
\* C28 (window index monotonicity): the window index of a call is the
\* time at which it began divided by the window length; of two calls under
\* one window length the later one has computed a window index that is not
\* smaller, and two calls on one key that began in the same window have the
\* same two counter keys.
C28_WindowIndexMonotone ==
  \A c1, c2 \in BagToSet(calls) :
    LET window_ms == as_millis(c1.policy.window_secs)
    IN c1.policy.window_secs = c2.policy.window_secs
         => /\ c1.current_window = c1.started \div window_ms
            /\ c1.started <= c2.started => c1.current_window <= c2.current_window
            /\ (c1.key = c2.key
                  /\ c1.started \div window_ms = c2.started \div window_ms)
                 => /\ c1.current_key = c2.current_key
                    /\ c1.previous_key = c2.previous_key

\* two calls on one key, begun at the first and at the last millisecond of
\* one window, with the same keys; the clock has reached the next window
C28_Witness ==
  \E c1, c2 \in BagToSet(calls) :
    /\ c1.key = c2.key
    /\ c1.started % WindowMs = 0
    /\ c2.started = c1.started + WindowMs - 1
    /\ c1.current_key = c2.current_key
    /\ now \div WindowMs = c1.current_window + 1
(***************************************************************************)
(* Properties of the lock (SpecLock).                                      *)
(***************************************************************************)
\* the callers that hold a guard whose ttl has not elapsed
Holders ==
  {i \in DOMAIN lockers : lockers[i].pc = "guard" /\ now < lockers[i].expires}

\* C29 (lock mutual exclusion): at most one caller at a time holds a guard
\* of the key whose ttl has not elapsed; while there is one, the SET NX PX
\* of every other caller fails; and a caller that ends with
\* MaxRetriesExceeded has made max_retries attempts.
C29_LockMutualExclusion ==
  /\ Cardinality(Holders) <= 1
  /\ \A i \in Holders : \A j \in DOMAIN lockers \ {i} :
       ~SET_NX_PX(store, now, lock_format_key(lockers[j].key),
                  lockers[j].token, lockers[j].ttl).ok
  /\ \A i \in DOMAIN lockers :
       lockers[i].pc = "MaxRetriesExceeded"
         => lockers[i].attempts = lockers[i].max_retries

\* a caller holds the guard, and another has made MaxRetries attempts while
\* it was held and has ended with MaxRetriesExceeded
C29_Witness ==
  \E i \in Holders, j \in DOMAIN lockers :
    /\ lockers[j].pc = "MaxRetriesExceeded"
    /\ lockers[j].attempts = MaxRetries
    /\ lockers[i].expires - lockers[i].ttl < now

\* C30 (owner-only release): the release of a dropped guard deletes the
\* lock key when the key holds the guard's token, and leaves Redis as it is
\* when the key is gone or holds the token of another caller.
C30_OwnerOnlyRelease ==
  [][\A i \in DOMAIN lockers :
       (lockers[i].pc = "dropped" /\ lockers'[i].pc = "released")
         => LET key == lock_format_key(lockers[i].key)
            IN IF key \in DOMAIN store /\ store[key].value = lockers[i].token
               THEN key \notin DOMAIN store'
               ELSE store' = store]_vars

\* a guard whose lock had expired was released after another caller had
\* taken the lock: the release found the other token, and the other caller
\* still holds its lock
C30_Witness ==
  \E i \in DOMAIN lockers, j \in Holders :
    /\ lockers[i].pc = "released"
    /\ lockers[i].found = lockers[j].token
    /\ lockers[i].token # lockers[j].token
    /\ lockers[i].expires <= lockers[j].expires - lockers[j].ttl
    /\ GET(store, lock_format_key(LockKey)) = lockers[j].token
====
